---- MODULE Spec2Model ----
(***************************************************************************)
(* A model of class_based_views/list.py: ListView and PaginatedListView.   *)
(*                                                                         *)
(* Python values are tagged records, Python objects live in a heap keyed   *)
(* by identity, and strings are sequences of one-character strings so that *)
(* int(), lower() and the "%" formatting are computed, not assumed.        *)
(* Exceptions are returned as the `exc` field of an operator's result and  *)
(* propagate exactly where the source has no handler for them.             *)
(***************************************************************************)
EXTENDS Integers, Sequences, FiniteSets, TLC

\* view:       the attributes of the view class
\* heap:       the objects alive, by identity
\* response:   what the last request ended in
\* configured: history variable, the view and heap as constructed
VARIABLES view, heap, response, configured

vars == <<view, heap, response, configured>>

\* ------------------------------------------------------------------ bounds

\* Longest configured item list.
MaxItems == 3

\* Largest configured integer paginate_by.
MaxPerPage == 2

\* ----------------------------------------------------------- Python values

\* `None` as an object reference (items = None, queryset = None).
NoneRef == 0

PyNone == [t |-> "none", i |-> 0, s |-> <<>>]

PyInt(n) == [t |-> "int", i |-> n, s |-> <<>>]

PyStr(cs) == [t |-> "str", i |-> 0, s |-> cs]

\* Truth value of a Python value, as `or` tests it.
Truthy(v) ==
  CASE v.t = "none" -> FALSE
    [] v.t = "int" -> v.i # 0
    [] v.t = "str" -> Len(v.s) > 0

Digits == {"0", "1", "2", "3", "4", "5", "6", "7", "8", "9"}

DigitVal(c) ==
  CASE c = "0" -> 0 [] c = "1" -> 1 [] c = "2" -> 2 [] c = "3" -> 3
    [] c = "4" -> 4 [] c = "5" -> 5 [] c = "6" -> 6 [] c = "7" -> 7
    [] c = "8" -> 8 [] c = "9" -> 9

RECURSIVE DecimalValue(_)
DecimalValue(cs) ==
  IF cs = <<>> THEN 0
  ELSE 10 * DecimalValue(SubSeq(cs, 1, Len(cs) - 1)) + DigitVal(cs[Len(cs)])

AllDigits(cs) == Len(cs) > 0 /\ \A k \in 1..Len(cs) : cs[k] \in Digits

\* int(v): an int is itself; a string is an optional sign followed by one or
\* more decimal digits, anything else is a ValueError.
PyIntOf(v) ==
  IF v.t = "int" THEN [exc |-> "none", val |-> v.i]
  ELSE IF v.t = "str" /\ AllDigits(v.s)
    THEN [exc |-> "none", val |-> DecimalValue(v.s)]
  ELSE IF v.t = "str" /\ Len(v.s) > 1 /\ v.s[1] = "-" /\ AllDigits(Tail(v.s))
    THEN [exc |-> "none", val |-> 0 - DecimalValue(Tail(v.s))]
  ELSE IF v.t = "str" /\ Len(v.s) > 1 /\ v.s[1] = "+" /\ AllDigits(Tail(v.s))
    THEN [exc |-> "none", val |-> DecimalValue(Tail(v.s))]
  ELSE IF v.t = "str" THEN [exc |-> "ValueError", val |-> 0]
  ELSE [exc |-> "TypeError", val |-> 0]

\* str.lower() on one character, over the alphabet the configurations use.
LowerChar(c) ==
  CASE c = "A" -> "a" [] c = "B" -> "b" [] c = "P" -> "p" [] OTHER -> c

Lower(cs) == [k \in 1..Len(cs) |-> LowerChar(cs[k])]

\* smart_str: a unicode object becomes the byte string of its UTF-8 encoding;
\* every character of the alphabet used here is ASCII and encodes to itself.
SmartStr(u) == [t |-> "str", i |-> 0, s |-> u.s]

\* -------------------------------------------------------------- the heap

NoMeta == [app_label |-> <<>>, object_name |-> <<>>, verbose_name_plural |-> <<>>]

\* A list has neither `_clone` nor `model`; a queryset has both.
ListObj(elems) ==
  [kind |-> "list", elems |-> elems, meta |-> NoMeta, evaluated |-> FALSE]

QuerySetObj(elems, meta) ==
  [kind |-> "queryset", elems |-> elems, meta |-> meta, evaluated |-> FALSE]

HasClone(o) == o.kind = "queryset"

HasModel(o) == o.kind = "queryset"

\* The identity a newly created object gets: the lowest one not in use.
FreshId(h) == CHOOSE n \in 1..(Cardinality(DOMAIN h) + 1) :
                 n \notin DOMAIN h /\ \A m \in 1..(n - 1) : m \in DOMAIN h

Alloc(h, o) ==
  LET id == FreshId(h)
  IN [ref |-> id,
      heap |-> [x \in DOMAIN h \cup {id} |-> IF x = id THEN o ELSE h[x]]]

\* QuerySet._clone(): a new queryset over the same query, nothing cached.
Clone(h, ref) == Alloc(h, [h[ref] EXCEPT !.evaluated = FALSE])

\* len(obj): evaluating a queryset fills the result cache of that object.
PyLen(h, ref) ==
  [val |-> Len(h[ref].elems),
   heap |-> IF h[ref].kind = "queryset"
            THEN [h EXCEPT ![ref].evaluated = TRUE] ELSE h]

\* obj[bottom:top] with 0 <= bottom, top: a new object of the same kind.
Slice(h, ref, bottom, top) ==
  LET n == Len(h[ref].elems)
      lo == IF bottom > n THEN n ELSE bottom
      hi == IF top > n THEN n ELSE top
      part == IF hi > lo THEN SubSeq(h[ref].elems, lo + 1, hi) ELSE <<>>
  IN Alloc(h, [h[ref] EXCEPT !.elems = part, !.evaluated = FALSE])

\* ------------------------------------------------- django.core.paginator

\* Paginator(object_list, per_page, allow_empty_first_page=...), orphans = 0.
Paginator(ref, per_page, allow_empty_first_page) ==
  [isNone |-> FALSE, object_list |-> ref, per_page |-> per_page,
   allow_empty_first_page |-> allow_empty_first_page]

\* The value None where a paginator is expected.
NonePaginator ==
  [isNone |-> TRUE, object_list |-> NoneRef, per_page |-> PyNone,
   allow_empty_first_page |-> FALSE]

NonePage == [isNone |-> TRUE, object_list |-> NoneRef, number |-> 0]

\* Paginator.count: object_list.count() or len(object_list); a queryset
\* answers count() with a COUNT query and caches nothing.
PaginatorCount(h, p) == Len(h[p.object_list].elems)

CeilDiv(a, b) == (a + b - 1) \div b

\* Paginator.num_pages: int(ceil(max(1, count) / float(per_page))), or 0 for
\* an empty list that may not have a first page.  float(None) is a TypeError.
PaginatorNumPages(h, p) ==
  LET count == PaginatorCount(h, p)
      hits == IF count > 1 THEN count ELSE 1
  IN IF count = 0 /\ ~p.allow_empty_first_page THEN [exc |-> "none", val |-> 0]
     ELSE IF p.per_page.t # "int" THEN [exc |-> "TypeError", val |-> 0]
     ELSE IF p.per_page.i = 0 THEN [exc |-> "ZeroDivisionError", val |-> 0]
     ELSE [exc |-> "none", val |-> CeilDiv(hits, p.per_page.i)]

PageFailed(e, h) == [exc |-> e, page |-> NonePage, heap |-> h]

\* Page(object_list[bottom:top], number, paginator); a is the new slice.
PageOf(number, a) ==
  [exc |-> "none",
   page |-> [isNone |-> FALSE, object_list |-> a.ref, number |-> number],
   heap |-> a.heap]

\* Paginator.page(number) once number >= 1 is known; np is num_pages.
PageValidated(h, p, number, np) ==
  IF np.exc # "none" THEN PageFailed(np.exc, h)
  ELSE IF number > np.val /\ ~(number = 1 /\ p.allow_empty_first_page)
    THEN PageFailed("InvalidPage", h)
  ELSE IF p.per_page.t # "int" THEN PageFailed("TypeError", h)
  ELSE
    LET bottom == (number - 1) * p.per_page.i
        top == IF bottom + p.per_page.i >= PaginatorCount(h, p)
               THEN PaginatorCount(h, p) ELSE bottom + p.per_page.i
    IN PageOf(number, Slice(h, p.object_list, bottom, top))

\* Paginator.page(number): validate_number, then the slice of that page.
PaginatorPage(h, p, number) ==
  IF number < 1 THEN PageFailed("InvalidPage", h)
  ELSE PageValidated(h, p, number, PaginatorNumPages(h, p))

\* ------------------------------------------------------------------ ListView

Last == <<"l", "a", "s", "t">>

ListSuffix == <<"l", "i", "s", "t">>

\* get_items that hands out the configured object itself.
get_items_no_clone(v, h) ==
  IF v.items # NoneRef
  THEN [exc |-> "none", ref |-> v.items, heap |-> h]
  ELSE [exc |-> "ImproperlyConfigured", ref |-> NoneRef, heap |-> h]

\* get_items that falls back on the `queryset` attribute.
get_items_queryset_fallback(v, h) ==
  LET src == IF v.items # NoneRef THEN v.items ELSE v.queryset
  IN IF src # NoneRef
     THEN IF HasClone(h[src])
          THEN LET c == Clone(h, src)
               IN [exc |-> "none", ref |-> c.ref, heap |-> c.heap]
          ELSE [exc |-> "none", ref |-> src, heap |-> h]
     ELSE [exc |-> "ImproperlyConfigured", ref |-> NoneRef, heap |-> h]

\* ListView.get_items
get_items(v, h) ==
  IF v.items # NoneRef
  THEN IF HasClone(h[v.items])
       THEN LET c == Clone(h, v.items)
            IN [exc |-> "none", ref |-> c.ref, heap |-> c.heap]
       ELSE [exc |-> "none", ref |-> v.items, heap |-> h]
  ELSE [exc |-> "ImproperlyConfigured", ref |-> NoneRef, heap |-> h]

\* get_allow_empty that answers the class default.
get_allow_empty_default(v) == TRUE

\* ListView.get_allow_empty
get_allow_empty(v) == v.allow_empty

\* "%s/%s_%s.html" % (opts.app_label, opts.object_name.lower(), suffix)
GeneratedName(meta, suffix) ==
  meta.app_label \o <<"/">> \o Lower(meta.object_name) \o <<"_">> \o suffix
    \o <<".", "h", "t", "m", "l">>

\* TemplateView.get_template_names(): the names the user configured.
base_get_template_names(v) == v.template_names

\* get_template_names that puts the generated name first.
get_template_names_generated_first(v, h, ref, suffix) ==
  LET names == base_get_template_names(v)
  IN IF HasModel(h[ref])
     THEN <<GeneratedName(h[ref].meta, suffix)>> \o names
     ELSE names

\* ListView.get_template_names
get_template_names(v, h, ref, suffix) ==
  LET names == base_get_template_names(v)
  IN IF HasModel(h[ref])
     THEN Append(names, GeneratedName(h[ref].meta, suffix))
     ELSE names

\* ListView.get_template_object_name
get_template_object_name(v, h, ref) ==
  IF Truthy(v.template_object_name)
  THEN PyStr(v.template_object_name.s \o <<"_">> \o ListSuffix)
  ELSE IF HasModel(h[ref])
  THEN SmartStr([t |-> "unicode", i |-> 0, s |-> h[ref].meta.verbose_name_plural])
  ELSE PyNone

\* ListView.get_context: 'object_list' and, when it has a name, the same
\* list under that name; the pagination keys are absent.
ListView_get_context(v, h, ref) ==
  LET name == get_template_object_name(v, h, ref)
  IN [object_list |-> ref,
      name_key |-> name,
      name_val |-> IF name.t # "none" THEN ref ELSE NoneRef,
      has_page_keys |-> FALSE,
      paginator |-> NonePaginator,
      page_obj |-> NonePage,
      is_paginated |-> FALSE]

NoContext ==
  [object_list |-> NoneRef, name_key |-> PyNone, name_val |-> NoneRef,
   has_page_keys |-> FALSE, paginator |-> NonePaginator, page_obj |-> NonePage,
   is_paginated |-> FALSE]

\* --------------------------------------------------------- PaginatedListView

\* PaginatedListView.get_paginate_by
get_paginate_by(v) == v.paginate_by

\* self.request.GET.get('page', 1)
RequestGETPage(req) == IF req.get_page.t = "none" THEN PyInt(1) ELSE req.get_page

\* self.kwargs.get('page', None)
KwargsPage(req) == req.kwargs_page

\* What paginate_items hands back or raises, with the page it was asked for
\* (page_in, the value of `page` after line 109) and the number it resolved.
Paginated(e, paginator, pg, hp, page_in, hasnum, number) ==
  [exc |-> e, paginator |-> paginator, page |-> pg,
   object_list |-> pg.object_list, heap |-> hp, page_in |-> page_in,
   has_page_number |-> hasnum, page_number |-> number]

\* Page resolution without the 'last' page.
resolve_page_number_no_last(h, paginator, page_in) ==
  LET conv == PyIntOf(page_in)
  IN IF conv.exc = "ValueError" THEN [exc |-> "Http404", val |-> 0] ELSE conv

\* paginate_items, lines 110-116: the page number requested.
resolve_page_number(h, paginator, page_in) ==
  LET conv == PyIntOf(page_in)
  IN IF conv.exc = "ValueError"
     THEN IF page_in.t = "str" /\ page_in.s = Last
          THEN PaginatorNumPages(h, paginator)
          ELSE [exc |-> "Http404", val |-> 0]
     ELSE conv

\* paginate_items, lines 117-121: pg is the result of paginator.page().
fetch_page(h, paginator, page_in, number, pg) ==
  IF pg.exc = "InvalidPage"
  THEN Paginated("Http404", paginator, NonePage, h, page_in, TRUE, number)
  ELSE IF pg.exc # "none"
  THEN Paginated(pg.exc, paginator, NonePage, h, page_in, TRUE, number)
  ELSE Paginated("none", paginator, pg.page, pg.heap, page_in, TRUE, number)

\* paginate_items from line 110 on; num is the resolved page number.
paginate_resolved(h, paginator, page_in, num) ==
  IF num.exc # "none"
  THEN Paginated(num.exc, paginator, NonePage, h, page_in, FALSE, 0)
  ELSE fetch_page(h, paginator, page_in, num.val,
                  PaginatorPage(h, paginator, num.val))

\* paginate_items from line 109 on.
paginate_page(h, paginator, page_in) ==
  paginate_resolved(h, paginator, page_in,
                    resolve_page_number(h, paginator, page_in))

\* PaginatedListView.paginate_items
paginate_items(v, h, ref, page, req) ==
  paginate_page(h,
                Paginator(ref, get_paginate_by(v), get_allow_empty(v)),
                IF Truthy(page) THEN page ELSE RequestGETPage(req))

\* The context built from the whole list instead of the page.
paginated_context_unsliced(v, h, ref, r) ==
  IF r.exc # "none"
  THEN [exc |-> r.exc, context |-> NoContext, heap |-> h, pag |-> r]
  ELSE [exc |-> "none",
        context |-> [ListView_get_context(v, r.heap, ref) EXCEPT
                       !.has_page_keys = TRUE,
                       !.paginator = r.paginator,
                       !.page_obj = r.page,
                       !.is_paginated = ~r.paginator.isNone],
        heap |-> r.heap, pag |-> r]

\* PaginatedListView.get_context, lines 95-101; r is what paginate_items
\* gave for the items `ref`.
paginated_context(v, h, ref, r) ==
  IF r.exc # "none"
  THEN [exc |-> r.exc, context |-> NoContext, heap |-> h, pag |-> r]
  ELSE [exc |-> "none",
        context |-> [ListView_get_context(v, r.heap, r.object_list) EXCEPT
                       !.has_page_keys = TRUE,
                       !.paginator = r.paginator,
                       !.page_obj = r.page,
                       !.is_paginated = ~r.paginator.isNone],
        heap |-> r.heap, pag |-> r]

\* PaginatedListView.get_context
PaginatedListView_get_context(v, h, ref, req) ==
  paginated_context(v, h, ref, paginate_items(v, h, ref, KwargsPage(req), req))

\* What paginate_items reports when it is not called.
NoPagination ==
  [exc |-> "none", paginator |-> NonePaginator, page |-> NonePage,
   object_list |-> NoneRef, heap |-> <<>>, page_in |-> PyNone,
   has_page_number |-> FALSE, page_number |-> 0]

\* self.get_context(items), dispatched on the class of the view.
get_context(v, h, ref, req) ==
  IF v.cls = "PaginatedListView"
  THEN PaginatedListView_get_context(v, h, ref, req)
  ELSE [exc |-> "none", context |-> ListView_get_context(v, h, ref),
        heap |-> h, pag |-> NoPagination]

\* ------------------------------------------------------------------- GET

NoResponse ==
  [outcome |-> "none", raised_in |-> "", trace |-> <<>>, items |-> NoneRef,
   templates |-> <<>>, context |-> NoContext, paginating |-> FALSE,
   page_in |-> PyNone, has_page_number |-> FALSE, page_number |-> 0]

\* What the handler saw of the request before it ended.
Seen(v, ref, pag) ==
  [NoResponse EXCEPT !.items = ref,
     !.paginating = (v.cls = "PaginatedListView"),
     !.page_in = pag.page_in,
     !.has_page_number = pag.has_page_number,
     !.page_number = pag.page_number]

\* GET, line 25, after get_context returned or raised gc.
GET_render(v, ref, gc) ==
  IF gc.exc # "none"
  THEN [response |-> [Seen(v, ref, gc.pag) EXCEPT !.outcome = gc.exc,
                        !.raised_in = "paginate_items",
                        !.trace = <<"get_items", "get_allow_empty", "get_context">>],
        heap |-> gc.heap]
  ELSE [response |-> [Seen(v, ref, gc.pag) EXCEPT !.outcome = "rendered",
                        !.trace = <<"get_items", "get_allow_empty", "get_context",
                                    "get_template_names", "render_to_response">>,
                        !.templates = get_template_names(v, gc.heap, ref, ListSuffix),
                        !.context = gc.context],
        heap |-> gc.heap]

\* GET, lines 21-24; ln is len(items), taken only when allow_empty is False.
GET_check_empty(v, req, ref, allow_empty, ln) ==
  IF ~allow_empty /\ ln.val = 0
  THEN [response |-> [NoResponse EXCEPT !.outcome = "Http404",
                        !.raised_in = "GET",
                        !.trace = <<"get_items", "get_allow_empty">>,
                        !.items = ref],
        heap |-> ln.heap]
  ELSE GET_render(v, ref, get_context(v, ln.heap, ref, req))

\* GET, lines 19-20; gi is what get_items returned or raised.
GET_with_items(v, req, gi) ==
  IF gi.exc # "none"
  THEN [response |-> [NoResponse EXCEPT !.outcome = gi.exc,
                        !.raised_in = "get_items", !.trace = <<"get_items">>],
        heap |-> gi.heap]
  ELSE GET_check_empty(v, req, gi.ref, get_allow_empty(v),
                       IF ~get_allow_empty(v) THEN PyLen(gi.heap, gi.ref)
                       ELSE [val |-> 0, heap |-> gi.heap])

\* ListView.GET.  The result is the response (or the exception that ended
\* the request), the calls made in order, and the heap the handler leaves.
GET(v, h, req) == GET_with_items(v, req, get_items(v, h))

\* --------------------------------------------------------- configurations

Range(n) == [k \in 1..n |-> k]

Metas ==
  { [app_label |-> <<"a">>, object_name |-> <<"B", "p">>,
     verbose_name_plural |-> <<"b", "p", "s">>],
    [app_label |-> <<"x">>, object_name |-> <<"A", "B">>,
     verbose_name_plural |-> <<"a", "b", "s">>] }

ItemObjects ==
  {ListObj(Range(n)) : n \in 0..MaxItems}
    \cup {QuerySetObj(Range(n), m) : n \in 0..MaxItems, m \in Metas}

QuerySetObjects == {QuerySetObj(Range(n), m) : n \in {0, MaxItems}, m \in Metas}

\* The class attributes `items` and `queryset` and the objects they name.
Stores ==
  {[items |-> NoneRef, queryset |-> NoneRef, heap |-> <<>>]}
    \cup {[items |-> 1, queryset |-> NoneRef, heap |-> <<o>>] : o \in ItemObjects}
    \cup {[items |-> NoneRef, queryset |-> 1, heap |-> <<o>>] : o \in QuerySetObjects}

TemplateNames == { <<>>, << <<"t">>, <<"a", "/", "b", "p", "_", "l", "i", "s", "t",
                                      ".", "h", "t", "m", "l">> >> }

TemplateObjectNames == {PyNone, PyStr(<<"p">>)}

PaginateBys == {PyNone} \cup {PyInt(k) : k \in 1..MaxPerPage}

Classes == {"ListView", "PaginatedListView"}

\* The view of class c over store st; a ListView has no paginate_by.
ViewOf(c, st, ae, ton, pb, tn) ==
  [cls |-> c, items |-> st.items, queryset |-> st.queryset,
   allow_empty |-> ae, template_object_name |-> ton,
   paginate_by |-> IF c = "PaginatedListView" THEN pb ELSE PyNone,
   template_names |-> tn]

DigitChar(d) ==
  CASE d = 0 -> "0" [] d = 1 -> "1" [] d = 2 -> "2" [] d = 3 -> "3" [] d = 4 -> "4"
    [] d = 5 -> "5" [] d = 6 -> "6" [] d = 7 -> "7" [] d = 8 -> "8" [] d = 9 -> "9"

\* The decimal numeral of n, 0 <= n < 100.
Numeral(n) ==
  IF n < 10 THEN <<DigitChar(n)>> ELSE <<DigitChar(n \div 10), DigitChar(n % 10)>>

\* The URL's `page` keyword argument: absent, a captured string, or a number
\* passed in the URLconf's extra arguments.
KwargPages == {PyNone, PyInt(0), PyStr(<<>>), PyStr(<<"2">>), PyStr(Last)}

\* The query string's `page` parameter: absent or a string.
GetPages ==
  {PyNone, PyStr(<<>>), PyStr(<<"-", "1">>), PyStr(<<"x">>), PyStr(<<"1", "x">>),
   PyStr(Last)}
    \cup {PyStr(Numeral(n)) : n \in 0..(MaxItems + 1)}

Requests == [kwargs_page : KwargPages, get_page : GetPages]

\* The objects the view's class attributes keep alive.
Roots(v) == {v.items, v.queryset} \ {NoneRef}

\* The heap when a request arrives: the objects of the previous request
\* were released with its response.
AtRest(v, h) == [x \in Roots(v) |-> h[x]]

\* ------------------------------------------------------------ the machine

Init ==
  \E c \in Classes, st \in Stores, ae \in BOOLEAN, ton \in TemplateObjectNames,
     pb \in PaginateBys, tn \in TemplateNames :
    /\ view = ViewOf(c, st, ae, ton, pb, tn)
    /\ heap = st.heap
    /\ response = NoResponse
    /\ configured = [view |-> view, heap |-> heap]

\* One GET request on a ListView.
ListViewGET(req) ==
  /\ view.cls = "ListView"
  /\ LET r == GET(view, AtRest(view, heap), req)
     IN /\ response' = r.response
        /\ heap' = r.heap
  /\ UNCHANGED <<view, configured>>

\* One GET request on a PaginatedListView.
PaginatedListViewGET(req) ==
  /\ view.cls = "PaginatedListView"
  /\ LET r == GET(view, AtRest(view, heap), req)
     IN /\ response' = r.response
        /\ heap' = r.heap
  /\ UNCHANGED <<view, configured>>

Next ==
  \/ \E req \in Requests : ListViewGET(req)
  \/ \E req \in Requests : PaginatedListViewGET(req)

Spec == Init /\ [][Next]_vars

\* ------------------------------------------------------------- properties

\* A request has been handled.
Handled == response.outcome # "none"

\* The view's `items` attribute is set.
Configured == view.items # NoneRef

\* The configured item list.
ConfiguredElems == heap[view.items].elems

Called(name) == \E k \in 1..Len(response.trace) : response.trace[k] = name

C2_QuerysetAttributeHandled ==
  (Handled /\ view.cls = "ListView" /\ view.items = NoneRef
     /\ view.queryset # NoneRef) =>
    /\ response.outcome = "rendered"
    /\ response.items # NoneRef
    /\ response.items # view.queryset
    /\ heap[response.items].elems = heap[view.queryset].elems

\* C3: with paginate_by None a PaginatedListView does not paginate: a
\* request that passes the emptiness check is rendered with the complete
\* list, is_paginated False and paginator and page_obj None; and
\* is_paginated is True exactly when paginate_by is not None.
C3_NoPaginationWhenNone ==
  (Handled /\ Configured /\ response.paginating) =>
    /\ view.paginate_by.t = "none" =>
         /\ response.outcome = "rendered"
         /\ heap[response.context.object_list].elems = ConfiguredElems
         /\ ~response.context.is_paginated
         /\ response.context.paginator.isNone
         /\ response.context.page_obj.isNone
    /\ response.outcome = "rendered" =>
         (response.context.is_paginated <=> view.paginate_by.t # "none")

\* The pairs (upper-case character, its lower-case form).
LowerPairs == {<<"A", "a">>, <<"B", "b">>, <<"P", "p">>}

IsLowerOf(lo, orig) ==
  /\ Len(lo) = Len(orig)
  /\ \A k \in 1..Len(orig) :
       \/ \E pr \in LowerPairs : orig[k] = pr[1] /\ lo[k] = pr[2]
       \/ (\A pr \in LowerPairs : orig[k] # pr[1]) /\ lo[k] = orig[k]

\* name is "<app_label>/<lowercased object_name>_<suffix>.html".
IsGeneratedName(name, meta, suffix) ==
  LET la == Len(meta.app_label)
      lo == Len(meta.object_name)
      ls == Len(suffix)
  IN /\ Len(name) = la + lo + ls + 7
     /\ SubSeq(name, 1, la) = meta.app_label
     /\ name[la + 1] = "/"
     /\ IsLowerOf(SubSeq(name, la + 2, la + 1 + lo), meta.object_name)
     /\ name[la + lo + 2] = "_"
     /\ SubSeq(name, la + lo + 3, la + lo + 2 + ls) = suffix
     /\ SubSeq(name, la + lo + ls + 3, la + lo + ls + 7) = <<".", "h", "t", "m", "l">>

Suffixes == {ListSuffix, <<"d">>}

\* names is the user's names in order, followed by exactly one generated
\* name when the items are a queryset, and by nothing otherwise.
TemplateNamesAsClaimed(names, o, suffix) ==
  LET base == view.template_names
  IN /\ SubSeq(names, 1, Len(base)) = base
     /\ IF o.kind = "queryset"
        THEN /\ Len(names) = Len(base) + 1
             /\ IsGeneratedName(names[Len(names)], o.meta, suffix)
        ELSE names = base

\* C4: get_template_names(items, suffix) returns the user-supplied names in
\* their order, with the generated "<app_label>/<object_name lowercased>_
\* <suffix>.html" appended last when the items are a queryset and nothing
\* added otherwise; the rendered response uses that list with suffix 'list'.
C4_GeneratedNameIsLast ==
  (Handled /\ response.outcome = "rendered") =>
    /\ TemplateNamesAsClaimed(response.templates, heap[response.items], ListSuffix)
    /\ \A sfx \in Suffixes :
         TemplateNamesAsClaimed(get_template_names(view, heap, response.items, sfx),
                                heap[response.items], sfx)

C4_Witness ==
  /\ Handled /\ response.outcome = "rendered"
  /\ heap[response.items].kind = "queryset"
  /\ Len(view.template_names) = 2
  /\ Len(response.templates) = 3
  /\ response.templates[3] = <<"x", "/", "a", "b", "_", "l", "i", "s", "t",
                               ".", "h", "t", "m", "l">>

Min(a, b) == IF a < b THEN a ELSE b

\* items[(p-1)*k : min(p*k, n)]
ExpectedPage(elems, k, p) ==
  LET lo == (p - 1) * k
      hi == Min(p * k, Len(elems))
  IN IF hi > lo THEN SubSeq(elems, lo + 1, hi) ELSE <<>>

\* C5: with integer paginate_by = k >= 1 over n items, page p of
\* 1..num_pages holds items[(p-1)*k : min(p*k, n)], every page but the last
\* holds exactly k items, the pages in order concatenate to the whole list,
\* and a rendered response carries exactly the slice of the resolved page.
C5_PagesSliceTheList ==
  (Handled /\ Configured /\ view.cls = "PaginatedListView"
     /\ view.paginate_by.t = "int") =>
    LET k == view.paginate_by.i
        elems == ConfiguredElems
        h0 == AtRest(view, heap)
        pgr == Paginator(view.items, get_paginate_by(view), get_allow_empty(view))
        np == PaginatorNumPages(h0, pgr).val
        got(p) == LET r == PaginatorPage(h0, pgr, p) IN r.heap[r.page.object_list].elems
        cat[p \in 0..np] == IF p = 0 THEN <<>> ELSE cat[p - 1] \o got(p)
    IN /\ \A p \in 1..np :
            /\ PaginatorPage(h0, pgr, p).exc = "none"
            /\ got(p) = ExpectedPage(elems, k, p)
            /\ p < np => Len(got(p)) = k
       /\ cat[np] = elems
       /\ response.outcome = "rendered" =>
            /\ response.context.page_obj.number = response.page_number
            /\ response.context.object_list = response.context.page_obj.object_list
            /\ heap[response.context.object_list].elems
                 = ExpectedPage(elems, k, response.page_number)

\* The last, shorter page of a list that k does not divide.
C5_Witness ==
  /\ Handled /\ Configured /\ view.cls = "PaginatedListView"
  /\ view.paginate_by = PyInt(2) /\ Len(ConfiguredElems) = 3
  /\ response.outcome = "rendered" /\ response.page_number = 2
  /\ heap[response.context.object_list].elems = <<3>>

ExpectedNumPages(n, k) ==
  IF n = 0 THEN 1 ELSE CHOOSE m \in 1..n : m * k >= n /\ (m - 1) * k < n

C8_FreshClone ==
  (Handled /\ Configured) =>
    IF HasClone(heap[view.items])
    THEN /\ response.items # view.items
         /\ response.items \in DOMAIN heap
         /\ heap[response.items].elems = ConfiguredElems
         /\ heap[response.items].meta = heap[view.items].meta
         /\ ~heap[view.items].evaluated
    ELSE response.items = view.items

\* C8: after any sequence of GET requests, whatever their outcome, the
\* view's configuration (items, allow_empty, template_object_name,
\* paginate_by, and the objects they name) is as constructed, a configured
\* queryset has only been worked on through fresh clones (other items are
\* used as the same object), and every request has the result it has when
\* issued first, the last response being one of those results.
C8_ConfigurationUntouched ==
  /\ view = configured.view
  /\ AtRest(view, heap) = configured.heap
  /\ C8_FreshClone
  /\ \A req \in Requests :
       GET(view, AtRest(view, heap), req).response
         = GET(configured.view, configured.heap, req).response
  /\ Handled =>
       \E req \in Requests :
         response = GET(configured.view, configured.heap, req).response

\* A request evaluated its clone; the configured queryset is untouched.
C8_Witness ==
  /\ Handled /\ Configured /\ HasClone(heap[view.items])
  /\ response.outcome = "Http404" /\ response.raised_in = "GET"
  /\ response.items # view.items
  /\ heap[response.items].evaluated
  /\ ~heap[view.items].evaluated

====
